---- MODULE Spec2Model ----
(***************************************************************************)
(* A model of pokerithm's chip accounting: Player (player.py), PotManager  *)
(* and its side-pot builder (pot.py), the BettingRound state machine       *)
(* (betting.py) and the single-hand orchestrator Table.play_hand           *)
(* (table.py).                                                             *)
(*                                                                         *)
(* Seats are 0 .. NumSeats-1 and players[s].seat = s, as every caller of   *)
(* the code builds them (tournament, tests: seat = list index).            *)
(***************************************************************************)
EXTENDS Integers, Sequences, FiniteSets, TLC

(* ------------------------------ bounds -------------------------------- *)
NumSeats == 3       \* players at the table
MaxStack == 3       \* largest stack a player brings to a hand
RoundStack == 4     \* largest stack in a betting round run on its own
DeepStack == 5      \* a deep stack in a betting round run on its own
WideSeats == 4      \* players at the wider table
WideStack == 3      \* largest stack at the wider table
TourStack == 3      \* largest stack a player brings to a tournament
DeckSize == 5       \* cards of the deck when the Deck is checked alone
MinCards == 4       \* fewest cards handed to Hand
MaxCards == 8       \* most cards handed to Hand
NumOrders == 3      \* orders in which the same cards are handed to Hand
HandsPerLevel == 2  \* TournamentConfig.hands_per_level
NumLevels == 2      \* len(TournamentConfig.blind_schedule)
MaxHands == 5       \* hands after which the tournament is no longer followed
MaxAmount == 6      \* largest amount a decider puts on a Raise or AllIn
MaxBet == 3         \* largest total_bet_this_hand given to the pot builder
NumStrengths == 3   \* distinct hand values the dealt cards may give
SmallBlind == 1     \* Table.small_blind, in chips
BigBlind == 2       \* Table.big_blind, in chips

(* -------------------------- program constants ------------------------- *)
MaxRaises == 4      \* BettingRound.max_raises

Seats == 0 .. (NumSeats - 1)
NoSeat == -1

VARIABLES
  players,             \* Table.players: seat -> Player record
  dealer_seat,         \* Table.dealer_seat
  pot_total,           \* PotManager._total
  alive,               \* play_hand: the non-eliminated seats of this hand
  positions,           \* play_hand: the position label of each alive seat
  sb_seat, bb_seat,    \* play_hand: sb_player, bb_player
  street,              \* play_hand: index into STREETS (0 = preflop)
  community,           \* play_hand: number of community cards dealt
  action_order,        \* BettingRound.players (sequence of seats)
  table_current_bet,   \* BettingRound.current_bet
  min_raise,           \* BettingRound.min_raise
  acted,               \* run: acted
  last_raiser,         \* run: last_raiser (NoSeat for None)
  raise_count,         \* run: raise_count
  idx,                 \* run: position of the for loop in action_order
  all_done,            \* run: all_done
  last,                \* the last decider consultation (what on_action sees)
  responded,           \* history: the seats consulted since current_bet last rose
  side_pots,           \* play_hand: side_pots / calculate_side_pots' result
  pot_winners,         \* play_hand: pot_winners
  went_to_showdown,    \* play_hand: went_to_showdown
  chips0,              \* the chips every seat held when play_hand was called
  events,              \* the observer callbacks fired by the latest step that fired any
  pc,                  \* position in play_hand / run / Tournament.run
  hand_number,         \* Tournament.hand_number
  blind_level_idx,     \* Tournament.blind_level_idx
  tour_alive,          \* Tournament.run: alive (sequence of seats)
  eliminations,        \* history: the on_elimination calls so far
  tour_winner,         \* Tournament.run: winner, the player returned (NoSeat before)
  deck_cards,          \* Deck.cards, the top of the deck last
  deck_dealt,          \* Deck._dealt
  deck_last,           \* the latest Deck call: its name, its n, whether it raised
  hand_cards,          \* Hand.cards
  hand_value,          \* what Hand(cards).evaluate() gave
  ranks,               \* _check_straight: its argument
  straight             \* _check_straight: its result

\* The variables of the table and its betting round, but for events and pc.
NoCall == [ op |-> "none", n |-> 0, failed |-> FALSE ]

tablevars == << players, dealer_seat, pot_total, alive, positions, sb_seat, bb_seat, street,
                community, action_order, table_current_bet, min_raise, acted,
                last_raiser, raise_count, idx, all_done, last, responded,
                side_pots, pot_winners, went_to_showdown, chips0 >>

tourvars == << hand_number, blind_level_idx, tour_alive, eliminations, tour_winner >>

deckvars == << deck_cards, deck_dealt, deck_last >>

evalvars == << hand_cards, hand_value, ranks, straight >>

vars == << tablevars, events, pc, tourvars, deckvars, evalvars >>

TourIdle ==
  /\ hand_number = 0
  /\ blind_level_idx = 0
  /\ tour_alive = << >>
  /\ eliminations = << >>
  /\ tour_winner = NoSeat

DeckIdle ==
  /\ deck_cards = << >>
  /\ deck_dealt = {}
  /\ deck_last = NoCall

EvalIdle ==
  /\ hand_cards = << >>
  /\ hand_value = << >>
  /\ ranks = << >>
  /\ straight = << >>

(* ------------------------------ helpers ------------------------------- *)
Min(a, b) == IF a <= b THEN a ELSE b
Max(a, b) == IF a >= b THEN a ELSE b

MinOf(S) == CHOOSE x \in S : \A y \in S : x <= y

RECURSIVE SumOver(_, _)
SumOver(f, S) ==
  IF S = {} THEN 0
  ELSE LET s == CHOOSE x \in S : TRUE IN f[s] + SumOver(f, S \ {s})

RECURSIVE SumSeq(_)
SumSeq(q) == IF q = << >> THEN 0 ELSE Head(q) + SumSeq(Tail(q))

(* ------------------------------ Player -------------------------------- *)
NewPlayer(c, h) ==
  [ chips |-> c, is_human |-> h, is_folded |-> FALSE, is_all_in |-> FALSE,
    current_bet |-> 0, total_bet_this_hand |-> 0 ]

is_active(P) == ~P.is_folded /\ ~P.is_all_in /\ P.chips > 0
is_in_hand(P) == ~P.is_folded
is_eliminated(P) == P.chips = 0 /\ ~P.is_all_in

reset_for_new_hand(P) ==
  [ P EXCEPT !.is_folded = FALSE, !.is_all_in = FALSE,
             !.current_bet = 0, !.total_bet_this_hand = 0 ]

reset_for_new_round(P) == [ P EXCEPT !.current_bet = 0 ]

bet_uncapped(P, amount) == amount

\* Player.bet's return value: the amount actually bet, capped at the stack.
bet_actual(P, amount) == Min(amount, P.chips)

\* Player.bet's effect on the player.
bet(P, amount) ==
  LET actual == bet_actual(P, amount) IN
  [ P EXCEPT !.chips = @ - actual,
             !.current_bet = @ + actual,
             !.total_bet_this_hand = @ + actual,
             !.is_all_in = IF P.chips - actual = 0 THEN TRUE ELSE @ ]

fold(P) == [ P EXCEPT !.is_folded = TRUE ]

(* --------------------------- side-pot builder ------------------------- *)
ContributionUnclamped(P, s, level, prev_level) ==
  Min(P[s].total_bet_this_hand, level) - prev_level

\* pot.py:57-60: what seat s puts into the pot of this level.
Contribution(P, s, level, prev_level) ==
  Min(P[s].total_bet_this_hand, level) - Min(P[s].total_bet_this_hand, prev_level)

EligibleBelowLevel(P, in_hand, level) ==
  { s \in in_hand : ~P[s].is_folded /\ P[s].total_bet_this_hand <= level }

EligibleIgnoringFold(P, in_hand, level) ==
  { s \in in_hand : P[s].total_bet_this_hand >= level }

\* pot.py:62-66: the players who may win the pot of this level.
Eligible(P, in_hand, level) ==
  { s \in in_hand : ~P[s].is_folded /\ P[s].total_bet_this_hand >= level }

\* pot.py:54-71: the loop over the sorted bet levels.
RECURSIVE PotsFrom(_, _, _, _)
PotsFrom(P, in_hand, levels, prev_level) ==
  IF levels = {} THEN << >>
  ELSE
    LET level == MinOf(levels)
        pot_amount ==
          SumOver([ s \in in_hand |-> Contribution(P, s, level, prev_level) ],
                  in_hand)
        rest == PotsFrom(P, in_hand, levels \ {level}, level)
    IN IF pot_amount > 0
       THEN << [ amount |-> pot_amount,
                 eligible_players |-> Eligible(P, in_hand, level) ] >> \o rest
       ELSE rest

\* PotManager.calculate_side_pots over the players of S.
calculate_side_pots(P, S) ==
  LET in_hand == { s \in S : P[s].total_bet_this_hand > 0 }
      bet_levels == { P[s].total_bet_this_hand : s \in in_hand }
  IN PotsFrom(P, in_hand, bet_levels, 0)

PotAmounts(pots) == [ k \in 1 .. Len(pots) |-> pots[k].amount ]
TotalBets(P, S) == SumOver([ s \in S |-> P[s].total_bet_this_hand ], S)

(* ------------------------------ actions ------------------------------- *)
Act(t, a) == [ type |-> t, amount |-> a ]

\* What a decider may return: any ActionType, with any amount on a Raise or
\* an AllIn (chips for a human decider, half big blinds for a bot).
DeciderOutputs ==
  { Act("fold", 0), Act("check", 0), Act("call", 0) }
    \cup { Act(t, a) : t \in { "raise", "all_in" }, a \in 0 .. MaxAmount }

\* An observer callback: on_deal of a street (street 0: the hole cards),
\* on_before_action and on_action of a seat, on_showdown, and the
\* tournament's callbacks.
Event(kind, seat, st) == [ kind |-> kind, seat |-> seat, street |-> st ]

NoLast ==
  [ seat |-> NoSeat, decided |-> "none", type |-> "none", amount |-> 0,
    applied |-> "none", to_call |-> 0, table_bet |-> 0 ]

(* --------------------- Table: context and deciders -------------------- *)
\* table.py:119-141, the fields of PlayerActionContext the round reads.
make_context(P, tb, mr) ==
  [ to_call |-> Max(0, tb - P.current_bet),
    min_raise |-> tb + mr,
    max_raise |-> P.current_bet + P.chips ]

\* table.py:370: int(raise_bb * bb), the bot's amount d counted in half BBs.
RaiseChips(h) == (h * BigBlind) \div 2

\* table.py:354-394 (and 444-478): the adapter around Bot.decide/AiBot.decide.
GetBotAction(P, ctx, st, d) ==
  CASE d.type = "fold" ->
         IF ctx.to_call = 0 THEN Act("check", 0) ELSE Act("fold", 0)
    [] d.type = "check" ->
         IF ctx.to_call > 0 THEN Act("call", 0) ELSE Act("check", 0)
    [] d.type = "call" -> Act("call", 0)
    [] OTHER ->
         LET raise_chips == RaiseChips(d.amount)
             current_total == P.current_bet + ctx.to_call
             raise_to == IF st = 0 THEN raise_chips
                         ELSE current_total + raise_chips
         IN IF raise_to <= current_total
            THEN (IF ctx.to_call > 0 THEN Act("call", 0) ELSE Act("check", 0))
            ELSE IF raise_to >= P.current_bet + P.chips
            THEN Act("all_in", P.current_bet + P.chips)
            ELSE IF raise_to < ctx.min_raise
            THEN Act("raise", ctx.min_raise)
            ELSE Act("raise", raise_to)

\* table.py:143-156: a human's action is passed through as returned.
get_action(P, ctx, st, d) ==
  IF P.is_human THEN d ELSE GetBotAction(P, ctx, st, d)

(* ---------------------------- BettingRound ---------------------------- *)
IsRaiseType(a) == a.type \in { "raise", "all_in" }

RaiseCapIgnored(action, ctx, rc) == action

\* betting.py:80-88: raises become calls/checks once the cap is hit.
EnforceRaiseCap(action, ctx, rc) ==
  IF rc >= MaxRaises /\ IsRaiseType(action)
  THEN (IF ctx.to_call > 0 THEN Act("call", 0) ELSE Act("check", 0))
  ELSE action

\* betting.py:125-146: the amount _apply_action hands to Player.bet.
BetAmount(P, action, tb) ==
  CASE action.type = "call" -> tb - P.current_bet
    [] action.type = "raise" -> action.amount - P.current_bet
    [] action.type = "all_in" -> P.chips
    [] OTHER -> 0

\* betting.py:125-146: _apply_action's effect on the player.
apply_action(P, action, tb) ==
  CASE action.type = "fold" -> fold(P)
    [] action.type = "check" -> P
    [] OTHER -> bet(P, BetAmount(P, action, tb))

apply_paid_as_asked(P, action, tb) ==
  IF action.type \in { "call", "raise", "all_in" }
  THEN BetAmount(P, action, tb)
  ELSE 0

\* betting.py:136,142,146: what _apply_action adds to the pot.
apply_paid(P, action, tb) ==
  IF action.type \in { "call", "raise", "all_in" }
  THEN bet_actual(P, BetAmount(P, action, tb))
  ELSE 0

\* betting.py:61-75: the for loop passes over this seat.
Skipped(P, s, ac, lr, tb) ==
  \/ ~is_active(P[s])
  \/ (s \in ac /\ (lr = NoSeat \/ s = lr))
  \/ (s \in ac /\ P[s].current_bet >= tb)

\* betting.py:60: the next position of the for loop that is consulted, 0 if
\* the loop runs off the end of the list.
NextIdx(P, order, from, ac, lr, tb) ==
  LET C == { j \in from .. Len(order) : ~Skipped(P, order[j], ac, lr, tb) }
  IN IF C = {} THEN 0 ELSE MinOf(C)

RunsUntilAllDone(P, order) == FALSE

\* betting.py:29-31
is_complete(P, order) ==
  Cardinality({ j \in 1 .. Len(order) : is_in_hand(P[order[j]]) }) <= 1

NobodyNeedsAction(P, order, lr, tb) == FALSE

\* betting.py:112-121
NeedsAction(P, order, lr, tb) ==
  \E j \in 1 .. Len(order) :
    /\ is_active(P[order[j]])
    /\ order[j] # lr
    /\ P[order[j]].current_bet < tb

MinRaiseFollowsIncrement(mr, raise_increment) == raise_increment

\* betting.py:100: min_raise once a raise of raise_increment is recorded.
RaisedMinRaise(mr, raise_increment) == Max(mr, raise_increment)

AllDoneNeverSet == FALSE

\* betting.py:58: all_done as each pass of the while loop starts.
AllDoneAtPassStart == TRUE

\* betting.py:109-123: after the for loop, "betting" when the while loop goes
\* round again and "round_done" when run returns.
AfterPass(done, P, order, lr, tb) ==
  IF done THEN "round_done"
  ELSE IF NeedsAction(P, order, lr, tb) THEN "betting" ELSE "round_done"

(* -------------------------------- Table ------------------------------- *)
RECURSIVE SortedSeq(_)
SortedSeq(S) ==
  IF S = {} THEN << >> ELSE << MinOf(S) >> \o SortedSeq(S \ {MinOf(S)})

SeqSet(q) == { q[i] : i \in 1 .. Len(q) }

\* table.py:480-489, as a 0-based index into seats.
find_seat_index(seats, target) ==
  IF \E i \in 1 .. Len(seats) : seats[i] = target
  THEN MinOf({ i \in 1 .. Len(seats) : seats[i] = target }) - 1
  ELSE IF \E i \in 1 .. Len(seats) : seats[i] > target
  THEN MinOf({ i \in 1 .. Len(seats) : seats[i] > target }) - 1
  ELSE 0

\* position.py:68-101, giving Position.short (position.py:38-49) or
\* "ValueError".
position_from_utg_distance(utg_distance, total_players) ==
  IF utg_distance < 0 \/ utg_distance >= total_players THEN "ValueError"
  ELSE LET from_end == total_players - 1 - utg_distance
       IN IF from_end = 0 THEN "BB"
          ELSE IF from_end = 1 THEN "SB"
          ELSE IF from_end = 2 THEN "BTN"
          ELSE IF from_end = 3 THEN "CO"
          ELSE IF from_end = 4 THEN "HJ"
          ELSE IF utg_distance = 0 THEN "UTG"
          ELSE IF utg_distance = 1 THEN "UTG+1"
          ELSE "MP"

\* table.py:281-297: the label of every alive seat.
assign_positions(al, dealer) ==
  LET dealer_idx == find_seat_index(al, dealer)
      n == Len(al)
      turn(s) == CHOOSE i \in 0 .. n - 1 : al[((dealer_idx + 1 + i) % n) + 1] = s
      label(i) == LET pos == position_from_utg_distance(i, n)
                  IN IF pos = "ValueError" THEN "?" ELSE pos
  IN [ s \in SeqSet(al) |-> label(turn(s)) ]

SbIdxAfterDealer(al, dealer) == (find_seat_index(al, dealer) + 1) % Len(al)

\* table.py:230-239: the 0-based indices of the blind posters.
sb_idx(al, dealer) ==
  IF Len(al) = 2 THEN find_seat_index(al, dealer)
  ELSE (find_seat_index(al, dealer) + 1) % Len(al)

bb_idx(al, dealer) ==
  IF Len(al) = 2 THEN (find_seat_index(al, dealer) + 1) % Len(al)
  ELSE (find_seat_index(al, dealer) + 2) % Len(al)

PreflopInSeatOrder(al, bb) == al

\* table.py:251-267
preflop_order(al, bb) ==
  LET n == Len(al)
      bbi == find_seat_index(al, bb)
  IN [ i \in 1 .. (n - 1) |-> al[((bbi + i) % n) + 1] ] \o << bb >>

\* table.py:269-279
postflop_order(P, al, dealer) ==
  LET n == Len(al)
      di == find_seat_index(al, dealer)
      all == [ i \in 1 .. n |-> al[((di + i) % n) + 1] ]
  IN SelectSeq(all, LAMBDA s : is_in_hand(P[s]))

\* table.py:205-206: the eligible players holding the best hand.  strength
\* stands for the HandValue evaluate_game gives each seat's seven cards.
WinnersOf(elig, strength) ==
  { s \in elig : \A t \in elig : strength[s] >= strength[t] }

ShareWithoutRemainder(amount, W, s) == amount \div Cardinality(W)

\* table.py:208-211: what winner s of W is paid from a pot; winners are
\* enumerated in seat order.
Share(amount, W, s) ==
  LET i == Cardinality({ w \in W : w < s })
  IN (amount \div Cardinality(W))
       + (IF i < amount % Cardinality(W) THEN 1 ELSE 0)

\* table.py:191-214: the showdown loop from pot k on.
RECURSIVE Showdown(_, _, _, _)
Showdown(P, pots, k, strength) ==
  IF k > Len(pots) THEN [ players |-> P, pot_winners |-> << >> ]
  ELSE
    LET sp == pots[k]
        eligible == { s \in sp.eligible_players : is_in_hand(P[s]) }
    IN IF eligible = {}
       THEN Showdown(P, pots, k + 1, strength)
       ELSE
         LET W == WinnersOf(eligible, strength)
             P2 == [ s \in DOMAIN P |->
                       IF s \in W
                       THEN [ P[s] EXCEPT !.chips = @ + Share(sp.amount, W, s) ]
                       ELSE P[s] ]
             rest == Showdown(P2, pots, k + 1, strength)
         IN [ players |-> rest.players,
              pot_winners |->
                << [ amount |-> sp.amount, winners |-> W, hand_value |-> TRUE ] >>
                  \o rest.pot_winners ]

(* ------------------------------ the hand ------------------------------ *)
\* The tables checked: every seat a bot behind Table's adapter (a simulated
\* tournament), or every seat human, its decider's action passed through as
\* returned (the tests' scripted deciders).
HumanConfigs == { {}, Seats }

RoundIdle ==
  /\ action_order = << >>
  /\ table_current_bet = 0
  /\ min_raise = 0
  /\ acted = {}
  /\ last_raiser = NoSeat
  /\ raise_count = 0
  /\ idx = 1
  /\ all_done = TRUE
  /\ last = NoLast
  /\ responded = {}

HandIdle ==
  /\ pot_total = 0
  /\ alive = << >>
  /\ positions = << >>
  /\ sb_seat = NoSeat
  /\ bb_seat = NoSeat
  /\ street = 0
  /\ community = 0
  /\ side_pots = << >>
  /\ pot_winners = << >>
  /\ went_to_showdown = FALSE

\* A Table as constructed by its callers: fresh Player records, at least two
\* of them with chips (tournament.py:85), any dealer seat.
Init ==
  /\ \E stacks \in [ Seats -> 0 .. MaxStack ], humans \in HumanConfigs :
       /\ Cardinality({ s \in Seats : stacks[s] > 0 }) >= 2
       /\ players = [ s \in Seats |-> NewPlayer(stacks[s], s \in humans) ]
       /\ chips0 = stacks
  /\ dealer_seat \in Seats
  /\ HandIdle
  /\ RoundIdle
  /\ pc = "start"
  /\ events = << >>
  /\ TourIdle
  /\ DeckIdle
  /\ EvalIdle

\* table.py:56-76: setup, blinds.
PostBlinds ==
  /\ pc = "start"
  /\ LET al == SortedSeq({ s \in DOMAIN players : ~is_eliminated(players[s]) })
         P1 == [ s \in DOMAIN players |->
                   IF s \in SeqSet(al) THEN reset_for_new_hand(players[s])
                   ELSE players[s] ]
         sb == al[sb_idx(al, dealer_seat) + 1]
         bb == al[bb_idx(al, dealer_seat) + 1]
         P2 == [ P1 EXCEPT ![sb] = bet(@, SmallBlind) ]
         P3 == [ P2 EXCEPT ![bb] = bet(@, BigBlind) ]
     IN /\ alive' = al
        /\ positions' = assign_positions(al, dealer_seat)
        /\ sb_seat' = sb
        /\ bb_seat' = bb
        /\ players' = P3
        /\ pot_total' = bet_actual(P1[sb], SmallBlind) + bet_actual(P2[bb], BigBlind)
  /\ street' = 0
  /\ pc' = "street"
  /\ UNCHANGED << dealer_seat, community, action_order, table_current_bet,
                  min_raise, acted, last_raiser, raise_count, idx, all_done,
                  last, responded, side_pots, pot_winners, went_to_showdown,
                  chips0 >>
  /\ events' = << Event("deal", NoSeat, 0) >>
  /\ UNCHANGED << tourvars, deckvars, evalvars >>

\* table.py:82-96: the community cards on the table once the street is dealt.
CommunityAt(st, c) ==
  CASE st = 1 -> c + 3
    [] st = 2 -> c + 1
    [] st = 3 -> c + 1
    [] OTHER -> c

\* betting.py:46-47
RunMinRaise(mr) == IF mr = 0 THEN BigBlind ELSE mr

\* table.py:80-117 and betting.py:46-55: deal the street, reset the street's
\* bets, build the BettingRound and enter run.
StartRound ==
  /\ pc = "street"
  /\ LET P1 == [ s \in DOMAIN players |->
                   IF s \in SeqSet(alive) THEN reset_for_new_round(players[s])
                   ELSE players[s] ]
         order == IF street = 0 THEN preflop_order(alive, bb_seat)
                  ELSE postflop_order(P1, alive, dealer_seat)
         active == { j \in 1 .. Len(order) : is_active(P1[order[j]]) }
     IN /\ players' = P1
        /\ action_order' = order
        /\ pc' = IF Cardinality(active) <= 1 THEN "round_done" ELSE "betting"
  /\ community' = CommunityAt(street, community)
  /\ table_current_bet' = (IF street = 0 THEN BigBlind ELSE 0)
  /\ min_raise' = RunMinRaise(BigBlind)
  /\ acted' = {}
  /\ last_raiser' = NoSeat
  /\ raise_count' = 0
  /\ idx' = 1
  /\ all_done' = AllDoneAtPassStart
  /\ last' = NoLast
  /\ responded' = {}
  /\ UNCHANGED << dealer_seat, pot_total, alive, positions, sb_seat, bb_seat, street,
                  side_pots, pot_winners, went_to_showdown, chips0 >>
  /\ events' = (IF street > 0 THEN << Event("deal", NoSeat, street) >> ELSE events)
  /\ UNCHANGED << tourvars, deckvars, evalvars >>

\* The seat the for loop consults next, NoSeat if it consults nobody.
ActionThenNotice(seat, st) ==
  << Event("action", seat, st), Event("before_action", seat, st) >>

\* table.py:150-151, betting.py:93-94: the callbacks around one decision.
ConsultEvents(seat, st) ==
  << Event("before_action", seat, st), Event("action", seat, st) >>

NextSeat ==
  LET j == NextIdx(players, action_order, idx, acted, last_raiser,
                   table_current_bet)
  IN IF pc = "betting" /\ j # 0 THEN action_order[j] ELSE NoSeat

\* betting.py:60-107: one consultation of the decider and its bookkeeping.
Consult ==
  /\ pc = "betting"
  /\ NextSeat # NoSeat
  /\ LET j == NextIdx(players, action_order, idx, acted, last_raiser,
                      table_current_bet)
         s == action_order[j]
         P == players[s]
         ctx == make_context(P, table_current_bet, min_raise)
     IN \E d \in DeciderOutputs :
          LET given == get_action(P, ctx, street, d)
              action == EnforceRaiseCap(given, ctx, raise_count)
              P2 == apply_action(P, action, table_current_bet)
              players2 == [ players EXCEPT ![s] = P2 ]
              raised == IsRaiseType(action) /\ P2.current_bet > table_current_bet
          IN /\ players' = players2
             /\ pot_total' = pot_total + apply_paid(P, action, table_current_bet)
             /\ acted' = acted \cup {s}
             /\ last' = [ seat |-> s, decided |-> d.type, type |-> given.type,
                          amount |-> IF given.type = "raise" THEN given.amount ELSE 0,
                          applied |-> action.type, to_call |-> ctx.to_call,
                          table_bet |-> table_current_bet ]
             /\ responded' = (IF raised THEN {} ELSE responded \cup {s})
             /\ IF raised
                THEN /\ table_current_bet' = P2.current_bet
                     /\ min_raise' = RaisedMinRaise(min_raise,
                                        P2.current_bet - table_current_bet)
                     /\ last_raiser' = s
                     /\ raise_count' = raise_count + 1
                     /\ pc' = AfterPass(FALSE, players2, action_order, s,
                                        P2.current_bet)
                     /\ all_done' = (IF pc' = "betting" THEN AllDoneAtPassStart
                                     ELSE FALSE)
                     /\ idx' = 1
                ELSE /\ UNCHANGED << table_current_bet, min_raise, last_raiser,
                                     raise_count, all_done >>
                     /\ IF is_complete(players2, action_order)
                        THEN pc' = "round_done" /\ idx' = idx
                        ELSE pc' = "betting" /\ idx' = j + 1
  /\ UNCHANGED << dealer_seat, alive, positions, sb_seat, bb_seat, street, community,
                  action_order, side_pots, pot_winners, went_to_showdown, chips0 >>
  /\ events' = ConsultEvents(NextSeat, street)
  /\ UNCHANGED << tourvars, deckvars, evalvars >>

\* betting.py:60,109-123: the for loop runs off the end of the list.
PassEnd ==
  /\ pc = "betting"
  /\ NextSeat = NoSeat
  /\ pc' = AfterPass(all_done, players, action_order, last_raiser,
                     table_current_bet)
  /\ idx' = 1
  /\ all_done' = (IF pc' = "betting" THEN AllDoneAtPassStart ELSE all_done)
  /\ UNCHANGED << players, dealer_seat, pot_total, alive, positions, sb_seat, bb_seat,
                  street, community, action_order, table_current_bet, min_raise,
                  acted, last_raiser, raise_count, last, responded, side_pots,
                  pot_winners, went_to_showdown, chips0 >>
  /\ UNCHANGED events
  /\ UNCHANGED << tourvars, deckvars, evalvars >>

InHand(P, al) == { s \in SeqSet(al) : is_in_hand(P[s]) }

\* table.py:80,160-163: after run returns, the next street or the resolution.
EndStreet ==
  /\ pc = "round_done"
  /\ IF Cardinality(InHand(players, alive)) <= 1 \/ street = 3
     THEN pc' = "showdown" /\ street' = street
     ELSE pc' = "street" /\ street' = street + 1
  /\ UNCHANGED << players, dealer_seat, pot_total, alive, positions, sb_seat, bb_seat,
                  community, action_order, table_current_bet, min_raise, acted,
                  last_raiser, raise_count, idx, all_done, last, responded, side_pots,
                  pot_winners, went_to_showdown, chips0 >>
  /\ UNCHANGED events
  /\ UNCHANGED << tourvars, deckvars, evalvars >>

\* table.py:166-171
ResolvePots(P, al, total) ==
  LET pots == calculate_side_pots(P, SeqSet(al))
  IN IF pots = << >> /\ total > 0
     THEN << [ amount |-> total, eligible_players |-> InHand(P, al) ] >>
     ELSE pots

DealOneMore(c) == c + 1

\* table.py:187-189: deal (and burn) until five community cards are out.
RECURSIVE CompleteCommunity(_)
CompleteCommunity(c) == IF c < 5 THEN CompleteCommunity(c + 1) ELSE c

TotalWonWhereEligible(pots, winner) ==
  SumSeq([ k \in 1 .. Len(pots) |->
             IF winner \in pots[k].eligible_players THEN pots[k].amount ELSE 0 ])

\* table.py:178: what the last player standing is paid.
TotalWon(pots, winner) == SumSeq(PotAmounts(pots))

\* table.py:165-224: the resolution of the hand.
Resolve ==
  /\ pc = "showdown"
  /\ LET in_hand == InHand(players, alive)
         pots == ResolvePots(players, alive, pot_total)
     IN /\ side_pots' = pots
        /\ IF Cardinality(in_hand) = 1
           THEN LET winner == CHOOSE s \in in_hand : TRUE
                    total_won == TotalWon(pots, winner)
                IN /\ players' = [ players EXCEPT ![winner].chips = @ + total_won ]
                   /\ pot_winners' = << [ amount |-> total_won,
                                          winners |-> {winner},
                                          hand_value |-> FALSE ] >>
                   /\ went_to_showdown' = FALSE
                   /\ community' = community
           ELSE \E strength \in [ DOMAIN players -> 1 .. NumStrengths ] :
                  LET r == Showdown(players, pots, 1, strength)
                  IN /\ players' = r.players
                     /\ pot_winners' = r.pot_winners
                     /\ went_to_showdown' = TRUE
                     /\ community' = CompleteCommunity(community)
  /\ pc' = "done"
  /\ UNCHANGED << dealer_seat, pot_total, alive, positions, sb_seat, bb_seat, street,
                  action_order, table_current_bet, min_raise, acted, last_raiser,
                  raise_count, idx, all_done, last, responded, chips0 >>
  /\ events' = << Event("showdown", NoSeat, street) >>
  /\ UNCHANGED << tourvars, deckvars, evalvars >>

Next == PostBlinds \/ StartRound \/ Consult \/ PassEnd \/ EndStreet \/ Resolve

Spec == Init /\ [][Next]_vars

(* ------------------------- a hand at a wider table --------------------- *)
\* The same hand at a table of WideSeats seats, some of them out of chips,
\* with small stacks and every seat a bot.
WideInit ==
  /\ \E stacks \in [ 0 .. (WideSeats - 1) -> 0 .. WideStack ] :
       /\ Cardinality({ s \in DOMAIN stacks : stacks[s] > 0 }) >= 2
       /\ players = [ s \in DOMAIN stacks |-> NewPlayer(stacks[s], FALSE) ]
       /\ chips0 = stacks
  /\ dealer_seat \in 0 .. (WideSeats - 1)
  /\ HandIdle
  /\ RoundIdle
  /\ pc = "start"
  /\ events = << >>
  /\ TourIdle
  /\ DeckIdle
  /\ EvalIdle

WideSpec == WideInit /\ [][Next]_vars

(* ----------------------------- Tournament ----------------------------- *)
\* A tournament of bots whose blind schedule has NumLevels levels, each with
\* the blinds SmallBlind and BigBlind.
BlindLevelNeverCapped(h, level) ==
  IF h > 1 /\ (h - 1) % HandsPerLevel = 0 THEN level + 1 ELSE level

\* tournament.py:88-94: blind_level_idx for hand h, given the level so far.
NextBlindLevel(h, level) ==
  IF h > 1 /\ (h - 1) % HandsPerLevel = 0 /\ level < NumLevels - 1
  THEN level + 1 ELSE level

\* tournament.py:148-160; seats is the sorted sequence of alive seats.
next_dealer(seats, dealer) ==
  LET at_or_after == { i \in 1 .. Len(seats) : seats[i] >= dealer }
      current_idx == IF at_or_after = {} THEN 0 ELSE MinOf(at_or_after) - 1
      next_idx == (current_idx + 1) % Len(seats)
  IN seats[next_idx + 1]

\* tournament.py:125-128
ClearHandState(P) ==
  [ s \in DOMAIN P |-> [ P[s] EXCEPT !.is_all_in = FALSE, !.is_folded = FALSE ] ]

FinishPositionByReportOrder(P, before) == Cardinality(DOMAIN P) - before

\* tournament.py:133-134: the finish position given to a player eliminated
\* in this hand; before is the number of on_elimination calls made so far.
FinishPosition(P, before) ==
  Cardinality(DOMAIN P)
    - Cardinality({ x \in DOMAIN P : is_eliminated(P[x]) }) + 1

ReportsPlayersInHand(P, al) == al

\* tournament.py:131-132: the players of alive found eliminated.
NewlyEliminated(P, al) == SelectSeq(al, LAMBDA s : is_eliminated(P[s]))

LoopUntilTwoAlive(al) == Len(al) > 2

\* tournament.py:85: the condition of run's while loop.
LoopContinues(al) == Len(al) > 1

\* A tournament as its callers build it: fresh players with chips.
TourInit ==
  /\ \E stacks \in [ Seats -> 1 .. TourStack ] :
       /\ players = [ s \in Seats |-> NewPlayer(stacks[s], FALSE) ]
       /\ chips0 = stacks
  /\ dealer_seat = 0
  /\ HandIdle
  /\ RoundIdle
  /\ events = << >>
  /\ TourIdle
  /\ DeckIdle
  /\ EvalIdle
  /\ pc = "tour_start"

\* tournament.py:82-83
TourStart ==
  /\ pc = "tour_start"
  /\ tour_alive' = SortedSeq({ s \in DOMAIN players : ~is_eliminated(players[s]) })
  /\ dealer_seat' = tour_alive'[1]
  /\ pc' = "tour_loop"
  /\ UNCHANGED << players, pot_total, alive, positions, sb_seat, bb_seat, street,
                  community, action_order, table_current_bet, min_raise, acted,
                  last_raiser, raise_count, idx, all_done, last, responded,
                  side_pots, pot_winners, went_to_showdown, chips0, events,
                  hand_number, blind_level_idx, eliminations, tour_winner,
                  deckvars, evalvars >>

\* tournament.py:85-120: the head of the loop, up to table.play_hand().
TourHandStart ==
  /\ pc = "tour_loop"
  /\ LoopContinues(tour_alive)
  /\ hand_number < MaxHands
  /\ hand_number' = hand_number + 1
  /\ blind_level_idx' = NextBlindLevel(hand_number', blind_level_idx)
  /\ events' = (IF blind_level_idx' # blind_level_idx
                THEN << Event("blind_increase", NoSeat, blind_level_idx') >>
                ELSE << >>)
                 \o << Event("hand_start", dealer_seat, hand_number') >>
  /\ chips0' = [ s \in DOMAIN players |-> players[s].chips ]
  /\ pc' = "start"
  /\ UNCHANGED << players, dealer_seat, pot_total, alive, positions, sb_seat, bb_seat,
                  street, community, action_order, table_current_bet, min_raise,
                  acted, last_raiser, raise_count, idx, all_done, last,
                  responded, side_pots, pot_winners, went_to_showdown,
                  tour_alive, eliminations, tour_winner, deckvars, evalvars >>

\* tournament.py:120-141: from play_hand's return to the end of the loop
\* body; the finished hand's Table and HandResult are dropped.
TourHandEnd ==
  /\ pc = "done"
  /\ LET P == ClearHandState(players)
         out == NewlyEliminated(P, tour_alive)
         al == SortedSeq({ s \in DOMAIN P : ~is_eliminated(P[s]) })
     IN /\ players' = P
        /\ eliminations' =
             eliminations \o
               [ k \in 1 .. Len(out) |->
                   [ seat |-> out[k], hand |-> hand_number,
                     position |-> FinishPosition(P, Len(eliminations) + k - 1) ] ]
        /\ events' = << Event("hand_end", NoSeat, hand_number) >> \o
                       [ k \in 1 .. Len(out) |->
                           Event("elimination", out[k], hand_number) ]
        /\ tour_alive' = al
        /\ dealer_seat' = (IF al # << >> THEN next_dealer(al, dealer_seat)
                           ELSE dealer_seat)
  /\ pot_total' = 0
  /\ alive' = << >>
  /\ positions' = << >>
  /\ sb_seat' = NoSeat
  /\ bb_seat' = NoSeat
  /\ street' = 0
  /\ community' = 0
  /\ side_pots' = << >>
  /\ pot_winners' = << >>
  /\ went_to_showdown' = FALSE
  /\ action_order' = << >>
  /\ table_current_bet' = 0
  /\ min_raise' = 0
  /\ acted' = {}
  /\ last_raiser' = NoSeat
  /\ raise_count' = 0
  /\ idx' = 1
  /\ all_done' = TRUE
  /\ last' = NoLast
  /\ responded' = {}
  /\ pc' = "tour_loop"
  /\ UNCHANGED << chips0, hand_number, blind_level_idx, tour_winner,
                  deckvars, evalvars >>

\* tournament.py:85,143-146: the loop ends and the winner is returned;
\* alive[0] of an empty list raises IndexError.
TourEnd ==
  /\ pc = "tour_loop"
  /\ ~LoopContinues(tour_alive)
  /\ IF tour_alive = << >>
     THEN /\ pc' = "tour_crashed"
          /\ UNCHANGED << tour_winner, events >>
     ELSE /\ tour_winner' = tour_alive[1]
          /\ events' = << Event("tournament_end", tour_alive[1], hand_number) >>
          /\ pc' = "tour_done"
  /\ UNCHANGED << tablevars, hand_number, blind_level_idx, tour_alive,
                  eliminations, deckvars, evalvars >>

TourNext ==
  \/ TourStart \/ TourHandStart \/ TourHandEnd \/ TourEnd
  \/ PostBlinds \/ StartRound \/ Consult \/ PassEnd \/ EndStreet \/ Resolve

TourSpec == TourInit /\ [][TourNext]_vars

(* -------------------------------- Deck -------------------------------- *)
\* deck.py:22: the full deck in its canonical order; a card is a number.
CanonicalDeck == [ i \in 1 .. DeckSize |-> i ]

Orderings(q) ==
  { p \in [ 1 .. Len(q) -> SeqSet(q) ] :
      \A i, j \in 1 .. Len(q) : i # j => p[i] # p[j] }

deal_never_fails(n, cards) == FALSE

\* deck.py:31: deal's guard.
deal_fails(n, cards) == n > Len(cards)

\* deck.py:33: the n cards popped off the end of the list, first popped first.
Popped(n, cards) == [ k \in 1 .. n |-> cards[Len(cards) + 1 - k] ]

\* deck.py:43-48: remove(*cs) on the deck D = [cards, dealt, failed].
RECURSIVE RemoveCards(_, _)
RemoveCards(D, cs) ==
  IF cs = << >> THEN D
  ELSE LET card == Head(cs)
       IN IF card \in SeqSet(D.cards)
          THEN RemoveCards([ D EXCEPT
                               !.cards = SelectSeq(D.cards, LAMBDA c : c # card),
                               !.dealt = D.dealt \cup { card } ],
                           Tail(cs))
          ELSE IF card \notin D.dealt
               THEN [ D EXCEPT !.failed = TRUE ]
               ELSE RemoveCards(D, Tail(cs))

\* deck.py:16-23: a freshly created Deck.
DeckInit ==
  /\ deck_cards = CanonicalDeck
  /\ deck_dealt = {}
  /\ deck_last = NoCall
  /\ players = << >>
  /\ chips0 = << >>
  /\ dealer_seat = 0
  /\ HandIdle
  /\ RoundIdle
  /\ events = << >>
  /\ TourIdle
  /\ EvalIdle
  /\ pc = "deck"

\* deck.py:20-23
DeckReset ==
  /\ pc = "deck"
  /\ deck_cards' = CanonicalDeck
  /\ deck_dealt' = {}
  /\ deck_last' = [ op |-> "reset", n |-> 0, failed |-> FALSE ]
  /\ UNCHANGED << tablevars, events, pc, tourvars, evalvars >>

\* deck.py:25-27: random.shuffle leaves the cards in any order.
DeckShuffle ==
  /\ pc = "deck"
  /\ deck_cards' \in Orderings(deck_cards)
  /\ deck_last' = [ op |-> "shuffle", n |-> 0, failed |-> FALSE ]
  /\ UNCHANGED << deck_dealt, tablevars, events, pc, tourvars, evalvars >>

\* deck.py:29-35
DeckDeal ==
  /\ pc = "deck"
  /\ \E n \in 0 .. DeckSize + 1 :
       IF deal_fails(n, deck_cards)
       THEN /\ deck_last' = [ op |-> "deal", n |-> n, failed |-> TRUE ]
            /\ UNCHANGED << deck_cards, deck_dealt >>
       ELSE LET m == IF n <= Len(deck_cards) THEN n ELSE Len(deck_cards)
            IN /\ deck_cards' = SubSeq(deck_cards, 1, Len(deck_cards) - m)
               /\ deck_dealt' = deck_dealt \cup SeqSet(Popped(m, deck_cards))
               /\ deck_last' = [ op |-> "deal", n |-> n, failed |-> FALSE ]
  /\ UNCHANGED << tablevars, events, pc, tourvars, evalvars >>

\* deck.py:41-48, called with one or two cards.
DeckRemove ==
  /\ pc = "deck"
  /\ \E c1 \in 1 .. DeckSize, c2 \in 0 .. DeckSize :
       LET cs == IF c2 = 0 THEN << c1 >> ELSE << c1, c2 >>
           D == RemoveCards([ cards |-> deck_cards, dealt |-> deck_dealt,
                              failed |-> FALSE ], cs)
       IN /\ deck_cards' = D.cards
          /\ deck_dealt' = D.dealt
          /\ deck_last' = [ op |-> "remove", n |-> Len(cs), failed |-> D.failed ]
  /\ UNCHANGED << tablevars, events, pc, tourvars, evalvars >>

DeckNext == DeckReset \/ DeckShuffle \/ DeckDeal \/ DeckRemove

DeckSpec == DeckInit /\ [][DeckNext]_vars

(* ------------------------------- Hand --------------------------------- *)
\* A card is << rank, suit >>; card.py:25-39 gives the ranks 2 .. 14.
Ranks == 2 .. 14

\* The cards hands are built from: six of one suit (a five-card run and the
\* ace below it), three of a second, two of a third, one of a fourth.
EvalDeck ==
  { << 2, 1 >>, << 3, 1 >>, << 4, 1 >>, << 5, 1 >>, << 6, 1 >>, << 14, 1 >>,
    << 2, 2 >>, << 3, 2 >>, << 14, 2 >>,
    << 2, 3 >>, << 3, 3 >>,
    << 2, 4 >> }

MaxOf(S) == CHOOSE x \in S : \A y \in S : x >= y

\* sorted(..., reverse=True) of a sequence of numbers.
RECURSIVE SortDesc(_)
SortDesc(q) ==
  IF q = << >> THEN << >>
  ELSE LET m == MaxOf(SeqSet(q))
           i == MinOf({ k \in 1 .. Len(q) : q[k] = m })
       IN << m >> \o SortDesc([ k \in 1 .. Len(q) - 1 |->
                                   IF k < i THEN q[k] ELSE q[k + 1] ])

RECURSIVE SortedDescSet(_)
SortedDescSet(S) ==
  IF S = {} THEN << >>
  ELSE << MaxOf(S) >> \o SortedDescSet(S \ { MaxOf(S) })

check_straight_without_wheel(values) ==
  IF values = [ k \in 1 .. 5 |-> values[1] - (k - 1) ]
  THEN << TRUE, values[1] >>
  ELSE << FALSE, 0 >>

\* hand.py:139-151
check_straight(values) ==
  IF values = [ k \in 1 .. 5 |-> values[1] - (k - 1) ]
  THEN << TRUE, values[1] >>
  ELSE IF values = << 14, 5, 4, 3, 2 >>
       THEN << TRUE, 5 >>
       ELSE << FALSE, 0 >>

\* hand.py:154-156, counts being the Counter of the sequence rs.
get_ranks_by_count(rs, count) ==
  SortedDescSet({ r \in SeqSet(rs) :
                    Cardinality({ k \in 1 .. Len(rs) : rs[k] = r }) = count })

\* hand.py:12-23
HIGH_CARD == 0
ONE_PAIR == 1
TWO_PAIR == 2
THREE_OF_A_KIND == 3
STRAIGHT == 4
FLUSH == 5
FULL_HOUSE == 6
FOUR_OF_A_KIND == 7
STRAIGHT_FLUSH == 8

\* hand.py:29-41
HandValue(rank, primary, kickers) ==
  [ rank |-> rank, primary |-> primary, kickers |-> kickers ]

FirstOrAll(q, n) == IF Len(q) <= n THEN q ELSE SubSeq(q, 1, n)

\* hand.py:85-136
evaluate_five(cards) ==
  LET rs == SortDesc([ k \in 1 .. Len(cards) |-> cards[k][1] ])
      suits == { cards[k][2] : k \in 1 .. Len(cards) }
      is_flush == Cardinality(suits) = 1
      st == check_straight(rs)
      is_straight == st[1]
      straight_high == st[2]
      by(count) == get_ranks_by_count(rs, count)
      pairs == by(2)
  IN IF is_flush /\ is_straight
     THEN HandValue(STRAIGHT_FLUSH, << straight_high >>, << >>)
     ELSE IF by(4) # << >>
     THEN HandValue(FOUR_OF_A_KIND, << by(4)[1] >>, << by(1)[1] >>)
     ELSE IF by(3) # << >> /\ by(2) # << >>
     THEN HandValue(FULL_HOUSE, << by(3)[1], by(2)[1] >>, << >>)
     ELSE IF is_flush
     THEN HandValue(FLUSH, rs, << >>)
     ELSE IF is_straight
     THEN HandValue(STRAIGHT, << straight_high >>, << >>)
     ELSE IF by(3) # << >>
     THEN HandValue(THREE_OF_A_KIND, << by(3)[1] >>, FirstOrAll(by(1), 2))
     ELSE IF Len(pairs) = 2
     THEN HandValue(TWO_PAIR, pairs, << by(1)[1] >>)
     ELSE IF Len(pairs) = 1
     THEN HandValue(ONE_PAIR, << pairs[1] >>, FirstOrAll(by(1), 3))
     ELSE HandValue(HIGH_CARD, << rs[1] >>, Tail(rs))

\* Python's a < b on tuples of numbers.
RECURSIVE TupleLess(_, _)
TupleLess(a, b) ==
  IF b = << >> THEN FALSE
  ELSE IF a = << >> THEN TRUE
  ELSE IF Head(a) # Head(b) THEN Head(a) < Head(b)
  ELSE TupleLess(Tail(a), Tail(b))

GreaterByRankOnly(v, w) == v.rank > w.rank

\* hand.py:29 (order=True): v > w compares (rank, primary, kickers).
ValueGreater(v, w) ==
  \/ v.rank > w.rank
  \/ /\ v.rank = w.rank
     /\ \/ TupleLess(w.primary, v.primary)
        \/ w.primary = v.primary /\ TupleLess(w.kickers, v.kickers)

\* itertools.combinations(q, k), in the order it yields them.
RECURSIVE combinations(_, _)
combinations(q, k) ==
  IF k = 0 THEN << << >> >>
  ELSE IF Len(q) < k THEN << >>
  ELSE LET with == combinations(Tail(q), k - 1)
       IN [ i \in 1 .. Len(with) |-> << Head(q) >> \o with[i] ]
            \o combinations(Tail(q), k)

NoValue == [ rank |-> -1, primary |-> << >>, kickers |-> << >> ]

\* hand.py:72-77: the loop over the combinations, best being None at first.
RECURSIVE BestOf(_, _)
BestOf(combos, best) ==
  IF combos = << >> THEN best
  ELSE LET value == evaluate_five(Head(combos))
       IN BestOf(Tail(combos),
                 IF best = NoValue \/ ValueGreater(value, best)
                 THEN value ELSE best)

FailsUnlessFiveOrSeven(cards) == Len(cards) \notin { 5, 7 }

\* hand.py:53-55: Hand.__post_init__ raises ValueError.
post_init_fails(cards) == Len(cards) < 5

\* hand.py:62-77
evaluate(cards) ==
  IF Len(cards) = 5 THEN evaluate_five(cards)
  ELSE BestOf(combinations(cards, 5), NoValue)

CardKey(c) == c[1] * 10 + c[2]

RECURSIVE Ascending(_)
Ascending(S) ==
  IF S = {} THEN << >>
  ELSE LET c == CHOOSE x \in S : \A y \in S : CardKey(x) <= CardKey(y)
       IN << c >> \o Ascending(S \ { c })

\* The cards of S in the o-th order: ascending, descending, or ascending
\* and cut after o - 2 cards.
Arrange(S, o) ==
  LET asc == Ascending(S)
      n == Len(asc)
  IN IF o = 1 THEN asc
     ELSE IF o = 2 THEN [ k \in 1 .. n |-> asc[n + 1 - k] ]
     ELSE [ k \in 1 .. n |-> asc[((k + o - 3) % n) + 1] ]

\* A list of distinct cards about to be made a Hand.
EvalInit ==
  /\ \E S \in SUBSET EvalDeck, o \in 1 .. NumOrders :
       /\ Cardinality(S) \in MinCards .. MaxCards
       /\ hand_cards = Arrange(S, o)
  /\ hand_value = << >>
  /\ ranks = << >>
  /\ straight = << >>
  /\ players = << >>
  /\ chips0 = << >>
  /\ dealer_seat = 0
  /\ HandIdle
  /\ RoundIdle
  /\ events = << >>
  /\ TourIdle
  /\ DeckIdle
  /\ pc = "eval_input"

\* hand.py:53-77: Hand(cards).evaluate()
Evaluate ==
  /\ pc = "eval_input"
  /\ IF post_init_fails(hand_cards)
     THEN /\ hand_value' = [ failed |-> TRUE, value |-> NoValue ]
          /\ pc' = "eval_failed"
     ELSE /\ hand_value' = [ failed |-> FALSE, value |-> evaluate(hand_cards) ]
          /\ pc' = "eval_done"
  /\ UNCHANGED << tablevars, events, tourvars, deckvars, hand_cards, ranks,
                  straight >>

EvalNext == Evaluate

EvalSpec == EvalInit /\ [][EvalNext]_vars

(* ------------------------ the straight detector ----------------------- *)
\* The sorted rank lists _evaluate_five hands to _check_straight: five ranks
\* in descending order, repeats allowed.
StraightInit ==
  /\ ranks \in { q \in [ 1 .. 5 -> Ranks ] : \A k \in 1 .. 4 : q[k] >= q[k + 1] }
  /\ straight = << >>
  /\ hand_cards = << >>
  /\ hand_value = << >>
  /\ players = << >>
  /\ chips0 = << >>
  /\ dealer_seat = 0
  /\ HandIdle
  /\ RoundIdle
  /\ events = << >>
  /\ TourIdle
  /\ DeckIdle
  /\ pc = "straight_input"

\* hand.py:92: is_straight, straight_high = _check_straight(ranks)
CheckStraight ==
  /\ pc = "straight_input"
  /\ straight' = check_straight(ranks)
  /\ pc' = "straight_done"
  /\ UNCHANGED << tablevars, events, tourvars, deckvars, hand_cards,
                  hand_value, ranks >>

StraightNext == CheckStraight

StraightSpec == StraightInit /\ [][StraightNext]_vars

(* ----------------------- a betting round alone ------------------------ *)
\* BettingRound(players, pot, big_blind) over fresh players, with the
\* dataclass defaults current_bet = 0 and min_raise = 0 and a decider whose
\* actions reach run as returned (tests/test_betting.py).
RoundInit ==
  /\ \E stacks \in [ Seats -> 1 .. RoundStack ] :
       /\ players = [ s \in Seats |-> NewPlayer(stacks[s], TRUE) ]
       /\ chips0 = stacks
  /\ dealer_seat = 0
  /\ HandIdle
  /\ action_order = SortedSeq(Seats)
  /\ table_current_bet = 0
  /\ min_raise = 0
  /\ acted = {}
  /\ last_raiser = NoSeat
  /\ raise_count = 0
  /\ idx = 1
  /\ all_done = TRUE
  /\ last = NoLast
  /\ responded = {}
  /\ pc = "round_start"
  /\ events = << >>
  /\ TourIdle
  /\ DeckIdle
  /\ EvalIdle

\* betting.py:46-55: run, up to its while loop.
RunEnter ==
  /\ pc = "round_start"
  /\ min_raise' = RunMinRaise(min_raise)
  /\ pc' = IF Cardinality({ j \in 1 .. Len(action_order) :
                              is_active(players[action_order[j]]) }) <= 1
           THEN "round_done" ELSE "betting"
  /\ acted' = {}
  /\ last_raiser' = NoSeat
  /\ raise_count' = 0
  /\ idx' = 1
  /\ all_done' = AllDoneAtPassStart
  /\ responded' = {}
  /\ UNCHANGED << players, dealer_seat, pot_total, alive, positions, sb_seat, bb_seat,
                  street, community, action_order, table_current_bet, last,
                  side_pots, pot_winners, went_to_showdown, chips0 >>
  /\ UNCHANGED events
  /\ UNCHANGED << tourvars, deckvars, evalvars >>

RoundNext == RunEnter \/ Consult \/ PassEnd

RoundSpec == RoundInit /\ [][RoundNext]_vars

\* run is sequential code: it keeps taking its next step.
FairRoundSpec == RoundSpec /\ WF_vars(RoundNext)

(* --------------------- a round with a failing decider ------------------ *)
\* betting.py:77-78, table.py:143-158: the decider raises an exception.
\* Neither get_action nor run catches it, so it leaves run (and play_hand)
\* with the player's state and the pot as they were.
ConsultRaises ==
  /\ pc = "betting"
  /\ NextSeat # NoSeat
  /\ LET P == players[NextSeat]
         ctx == make_context(P, table_current_bet, min_raise)
     IN last' = [ seat |-> NextSeat, decided |-> "exception", type |-> "none",
                  amount |-> 0, applied |-> "none", to_call |-> ctx.to_call,
                  table_bet |-> table_current_bet ]
  /\ pc' = "raised"
  /\ UNCHANGED << players, dealer_seat, pot_total, alive, positions, sb_seat, bb_seat,
                  street, community, action_order, table_current_bet, min_raise,
                  acted, last_raiser, raise_count, idx, all_done, responded,
                  side_pots, pot_winners, went_to_showdown, chips0, events,
                  tourvars, deckvars, evalvars >>

FaultyRoundNext == RunEnter \/ Consult \/ PassEnd \/ ConsultRaises

FaultyRoundSpec == RoundInit /\ [][FaultyRoundNext]_vars

(* ------------------- a betting round with deep stacks ----------------- *)
\* The same round with every stack either short or deep, so that the raise
\* cap is reached by players who still hold chips.
DeepRoundInit ==
  /\ \E stacks \in [ Seats -> { 1, DeepStack } ] :
       /\ players = [ s \in Seats |-> NewPlayer(stacks[s], TRUE) ]
       /\ chips0 = stacks
  /\ dealer_seat = 0
  /\ HandIdle
  /\ action_order = SortedSeq(Seats)
  /\ table_current_bet = 0
  /\ min_raise = 0
  /\ acted = {}
  /\ last_raiser = NoSeat
  /\ raise_count = 0
  /\ idx = 1
  /\ all_done = TRUE
  /\ last = NoLast
  /\ responded = {}
  /\ pc = "round_start"
  /\ events = << >>
  /\ TourIdle
  /\ DeckIdle
  /\ EvalIdle

DeepRoundSpec == DeepRoundInit /\ [][RoundNext]_vars

(* ------------------------ the side-pot builder alone ------------------ *)
\* calculate_side_pots is a static method of any list of players: every
\* combination of bets and fold flags.
PotInit ==
  /\ \E bets \in [ Seats -> 0 .. MaxBet ], folds \in SUBSET Seats :
       players = [ s \in Seats |->
                     [ NewPlayer(0, FALSE) EXCEPT
                         !.total_bet_this_hand = bets[s],
                         !.is_folded = (s \in folds) ] ]
  /\ chips0 = [ s \in Seats |-> 0 ]
  /\ dealer_seat = 0
  /\ HandIdle
  /\ RoundIdle
  /\ pc = "pots_input"
  /\ events = << >>
  /\ TourIdle
  /\ DeckIdle
  /\ EvalIdle

BuildPots ==
  /\ pc = "pots_input"
  /\ side_pots' = calculate_side_pots(players, Seats)
  /\ pc' = "pots_built"
  /\ UNCHANGED << players, dealer_seat, pot_total, alive, positions, sb_seat, bb_seat,
                  street, community, action_order, table_current_bet, min_raise,
                  acted, last_raiser, raise_count, idx, all_done, last, responded,
                  pot_winners, went_to_showdown, chips0 >>
  /\ UNCHANGED events
  /\ UNCHANGED << tourvars, deckvars, evalvars >>

PotNext == BuildPots

PotSpec == PotInit /\ [][PotNext]_vars

(* ============================== claims ================================ *)
ChipsOf(P) == SumOver([ s \in Seats |-> P[s].chips ], Seats)
Committed(k) == IF k >= 0 THEN k ELSE 0
\* What seat s owes: the table's current bet less the seat's own, at least 0.
Owed(s) == Committed(table_current_bet - players[s].current_bet)
Consulting == NextSeat # NoSeat
FoldedSeats == { s \in Seats : players[s].is_folded }

(* ---- C1 ---- *)
\* C1: when play_hand has returned, the chips of all players sum to what
\* they summed to when it was called.
C1_ChipsConserved ==
  pc = "done" => ChipsOf(players) = SumOver(chips0, Seats)

(* ---- C2 ---- *)
\* C2: the amounts of the side pots calculate_side_pots returns sum to the
\* total_bet_this_hand of all the players, folded ones included.
C2_PotsSumToBets ==
  pc = "pots_built" =>
    SumSeq(PotAmounts(side_pots)) = TotalBets(players, Seats)

C2_Witness ==
  /\ pc = "pots_built"
  /\ Len(side_pots) >= 2
  /\ \E s \in FoldedSeats : players[s].total_bet_this_hand > 0

(* ---- C3 ---- *)
\* C3: in the returned list, each pot's eligible set contains the eligible
\* set of the pot after it.
C3_EligibleNested ==
  pc = "pots_built" =>
    \A k \in 1 .. (Len(side_pots) - 1) :
      side_pots[k + 1].eligible_players \subseteq side_pots[k].eligible_players

C3_Witness ==
  /\ pc = "pots_built"
  /\ Len(side_pots) = 3
  /\ FoldedSeats # {}
  /\ side_pots[2].eligible_players # side_pots[1].eligible_players

(* ---- C4 ---- *)
\* C4: no folded player is eligible for any side pot, and the side pots hold
\* the folded players' bets on top of the bets of the players still in.
C4_FoldedPaysButCannotWin ==
  pc = "pots_built" =>
    /\ \A k \in 1 .. Len(side_pots) :
         side_pots[k].eligible_players \cap FoldedSeats = {}
    /\ SumSeq(PotAmounts(side_pots)) - TotalBets(players, Seats \ FoldedSeats)
         = TotalBets(players, FoldedSeats)

C4_Witness ==
  /\ pc = "pots_built"
  /\ \E f \in FoldedSeats :
       \A s \in Seats \ {f} :
         /\ players[s].total_bet_this_hand > 0
         /\ players[f].total_bet_this_hand > players[s].total_bet_this_hand

(* ---- C5 ---- *)
\* C5: a betting round that is consulting deciders always comes to return,
\* whatever the deciders answer.
C5_RoundTerminates == (pc = "betting") ~> (pc = "round_done")

C5_Witness ==
  /\ pc = "round_done"
  /\ raise_count = MaxRaises
  /\ last.decided = "all_in"
  /\ last.applied \in { "call", "check" }

(* ---- C6 ---- *)
\* C6: when run has returned with two or more players in the hand, every
\* player who can still act has acted and has matched the table's bet.
C6_RoundEndsSettled ==
  (pc = "round_done" /\ ~is_complete(players, action_order)) =>
    \A s \in SeqSet(action_order) :
      is_active(players[s]) =>
        s \in acted /\ players[s].current_bet >= table_current_bet

(* ---- C7 ---- *)
\* C7: raise_count never passes max_raises, and at the cap a Raise or AllIn
\* commits what a Call commits when chips are owed and nothing otherwise,
\* leaving the table's current bet and the raise count as they were.
C7_RaiseCap ==
  [][ /\ raise_count' <= MaxRaises
      /\ (Consulting /\ raise_count = MaxRaises
            /\ last'.type \in { "raise", "all_in" }) =>
           LET s == NextSeat
               paid == IF Owed(s) <= players[s].chips THEN Owed(s)
                       ELSE players[s].chips
           IN /\ players'[s].chips = players[s].chips - paid
              /\ players'[s].current_bet = players[s].current_bet + paid
              /\ pot_total' = pot_total + paid
              /\ table_current_bet' = table_current_bet
              /\ raise_count' = raise_count ]_vars

C7_Witness ==
  /\ raise_count = MaxRaises
  /\ last.type = "raise"
  /\ last.applied = "call"
  /\ last.to_call > 0

(* ---- C8 ---- *)
\* C8: a Check from a decider whose player owes chips is applied as a Call:
\* the player commits min(to_call, chips) and the pot grows by as much.
C8_CheckOwedIsCall ==
  [][ (Consulting /\ last'.decided = "check" /\ Owed(NextSeat) > 0) =>
        LET s == NextSeat
            paid == IF Owed(s) <= players[s].chips THEN Owed(s)
                    ELSE players[s].chips
        IN /\ players'[s].chips = players[s].chips - paid
           /\ pot_total' = pot_total + paid ]_vars

(* ---- C9 ---- *)
\* C9: a Fold from a decider whose player owes nothing is applied as a
\* Check: the player is not folded by it.
C9_FreeFoldIsCheck ==
  [][ (Consulting /\ last'.decided = "fold" /\ Owed(NextSeat) = 0) =>
        ~players'[NextSeat].is_folded ]_vars

(* ---- C10 ---- *)
\* C10: a Raise to more than the table's bet but less than a minimum raise,
\* by a player who has the chips for a minimum raise, leaves the player's
\* current_bet at the table's bet plus min_raise.
C10_SmallRaiseClamped ==
  [][ (/\ Consulting
       /\ last'.decided = "raise" /\ last'.type = "raise"
       /\ last'.amount > table_current_bet
       /\ last'.amount < table_current_bet + min_raise
       /\ players[NextSeat].current_bet + players[NextSeat].chips
            >= table_current_bet + min_raise) =>
        players'[NextSeat].current_bet = table_current_bet + min_raise ]_vars

(* ---- C11 ---- *)
\* C11 as stated: a Raise to more than the player's current_bet plus chips
\* always commits exactly the remaining chips, leaving chips = 0 and
\* is_all_in set, the pot grown by those chips.
C11_LargeRaiseIsAllIn ==
  [][ (/\ Consulting
       /\ last'.decided = "raise" /\ last'.type = "raise"
       /\ last'.amount > players[NextSeat].current_bet + players[NextSeat].chips) =>
        LET s == NextSeat IN
        /\ players'[s].chips = 0
        /\ players'[s].is_all_in
        /\ players'[s].current_bet = players[s].current_bet + players[s].chips
        /\ pot_total' = pot_total + players[s].chips ]_vars

\* C11 amended: the same, for a Raise consulted while raise_count is below
\* max_raises.
C11_LargeRaiseBelowCapIsAllIn ==
  [][ (/\ Consulting
       /\ raise_count < MaxRaises
       /\ last'.decided = "raise" /\ last'.type = "raise"
       /\ last'.amount > players[NextSeat].current_bet + players[NextSeat].chips) =>
        LET s == NextSeat IN
        /\ players'[s].chips = 0
        /\ players'[s].is_all_in
        /\ players'[s].current_bet = players[s].current_bet + players[s].chips
        /\ pot_total' = pot_total + players[s].chips ]_vars

C11_Witness ==
  /\ last.decided = "raise"
  /\ last.applied = "raise"
  /\ last.seat # NoSeat
  /\ players[last.seat].is_all_in
  /\ players[last.seat].chips = 0
  /\ last.amount > players[last.seat].current_bet
  /\ pot_total > players[last.seat].current_bet

(* ---- C12 ---- *)
\* C12: a Raise to no more than the table's current bet is applied as a
\* Call when chips are owed (the player commits min(to_call, chips)) and as
\* a Check when nothing is owed, and is not recorded as a raise.
C12_LowRaiseIsCallOrCheck ==
  [][ (/\ Consulting
       /\ last'.decided = "raise" /\ last'.type = "raise"
       /\ last'.amount <= table_current_bet) =>
        LET s == NextSeat
            paid == IF Owed(s) <= players[s].chips THEN Owed(s)
                    ELSE players[s].chips
        IN /\ players'[s].chips = players[s].chips - paid
           /\ pot_total' = pot_total + paid
           /\ table_current_bet' = table_current_bet
           /\ raise_count' = raise_count
           /\ last_raiser' = last_raiser ]_vars

(* ---- C13 ---- *)
\* C13: below the raise cap, an AllIn that takes the player's current_bet
\* above the table's current bet by less than min_raise makes that bet the
\* table's current bet, makes the player the last raiser, adds one to
\* raise_count and leaves min_raise as it was.
C13_ShortAllInIsRaise ==
  [][ (/\ Consulting
       /\ raise_count < MaxRaises
       /\ last'.type = "all_in"
       /\ players'[NextSeat].current_bet > table_current_bet
       /\ players'[NextSeat].current_bet < table_current_bet + min_raise) =>
        /\ table_current_bet' = players'[NextSeat].current_bet
        /\ last_raiser' = NextSeat
        /\ raise_count' = raise_count + 1
        /\ min_raise' = min_raise ]_vars

C13_Witness ==
  /\ last.applied = "all_in"
  /\ last.seat = last_raiser
  /\ last.table_bet > 0
  /\ table_current_bet > last.table_bet
  /\ table_current_bet - last.table_bet < min_raise
  /\ raise_count >= 2

(* ---- C14 ---- *)
\* C14: right after an all-in that raised the table's current bet by less
\* than min_raise, a Raise or AllIn from a player who had already acted and
\* matched the bet that stood before it is not applied as a further raise:
\* the table's current bet, the raise count and the last raiser stay.
C14_ShortAllInDoesNotReopen ==
  [][ (/\ Consulting
       /\ last.applied = "all_in"
       /\ last.seat = last_raiser
       /\ last.table_bet > 0
       /\ table_current_bet > last.table_bet
       /\ table_current_bet - last.table_bet < min_raise
       /\ NextSeat \in acted
       /\ players[NextSeat].current_bet = last.table_bet) =>
        /\ table_current_bet' = table_current_bet
        /\ raise_count' = raise_count
        /\ last_raiser' = last_raiser ]_vars

(* ---- C15 ---- *)
\* C15: when run has returned after the table's current bet went up, with
\* two or more players still in the hand, every player other than the last
\* raiser who is neither folded nor all-in has been consulted since the bet
\* last went up.
C15_RaiseIsAnswered ==
  (pc = "round_done" /\ last_raiser # NoSeat
     /\ ~is_complete(players, action_order)) =>
    \A s \in SeqSet(action_order) \ {last_raiser} :
      is_active(players[s]) => s \in responded

C15_Witness ==
  /\ pc = "round_done"
  /\ raise_count >= 2
  /\ ~is_complete(players, action_order)
  /\ \E s \in SeqSet(action_order) \ {last_raiser} :
       is_active(players[s]) /\ s \in responded
  /\ \E s \in SeqSet(action_order) \ {last_raiser} : players[s].is_folded

(* ---- C16 ---- *)
\* Seats around the table: how many seats clockwise t is from s.
SeatsFrom(s, t) == (t - s + Cardinality(DOMAIN players)) % Cardinality(DOMAIN players)

\* The alive player nearest clockwise after seat s.
AliveAfter(s) ==
  CHOOSE t \in SeqSet(alive) \ {s} :
    \A u \in SeqSet(alive) \ {s} : SeatsFrom(s, t) <= SeatsFrom(s, u)

\* The player holding the dealer button: the player at dealer_seat, or the
\* nearest alive player after it when that seat has no chips.
Button ==
  IF dealer_seat \in SeqSet(alive) THEN dealer_seat ELSE AliveAfter(dealer_seat)

\* C16: with three or more alive players the small blind is posted by the
\* alive player next after the dealer and the big blind by the alive player
\* after that one; with two, the dealer posts the small blind and the other
\* player the big blind.  Nobody else has chips in when the blinds are in.
C16_BlindPosters ==
  (pc = "street" /\ street = 0) =>
    /\ IF Len(alive) >= 3
       THEN sb_seat = AliveAfter(Button) /\ bb_seat = AliveAfter(sb_seat)
       ELSE sb_seat = Button /\ bb_seat = AliveAfter(Button)
    /\ players[sb_seat].total_bet_this_hand = Min(SmallBlind, chips0[sb_seat])
    /\ players[bb_seat].total_bet_this_hand = Min(BigBlind, chips0[bb_seat])
    /\ \A s \in DOMAIN players \ { sb_seat, bb_seat } :
         players[s].total_bet_this_hand = 0

C16_Witness ==
  /\ pc = "street" /\ street = 0
  /\ Len(alive) = 3
  /\ 0 \notin SeqSet(alive)
  /\ dealer_seat = 2
  /\ sb_seat = 3
  /\ bb_seat = 1
  /\ pot_total = SmallBlind + BigBlind

(* ---- C17 ---- *)
\* The seats of S in clockwise order starting after seat s; s, if in S, last.
RECURSIVE ClockwiseAfter(_, _)
ClockwiseAfter(s, S) ==
  IF S = {} THEN << >>
  ELSE LET n == Cardinality(DOMAIN players)
           key(t) == (t - s - 1 + n) % n
           first == CHOOSE t \in S : \A u \in S : key(t) <= key(u)
       IN << first >> \o ClockwiseAfter(s, S \ {first})

\* The first player of the order who is neither folded nor all-in.
FirstToAct(order) ==
  order[MinOf({ j \in 1 .. Len(order) : is_active(players[order[j]]) })]

\* C17: the preflop round goes through the alive players clockwise from the
\* one after the big blind, the big blind last (heads-up the dealer first);
\* a later round goes through the players still in the hand clockwise from
\* the one after the dealer; the first player consulted in a round is the
\* first of that order who can act.
C17_ActionOrder ==
  [][ /\ (pc = "street" /\ street = 0) =>
           /\ action_order' = ClockwiseAfter(bb_seat, SeqSet(alive))
           /\ action_order'[Len(alive)] = bb_seat
           /\ (Len(alive) = 2 => action_order'[1] = Button)
      /\ (pc = "street" /\ street > 0) =>
           action_order' = ClockwiseAfter(Button, InHand(players, alive))
      /\ (Consulting /\ acted = {}) => last'.seat = FirstToAct(action_order)
    ]_vars

C17_Witness ==
  /\ pc = "betting"
  /\ street = 1
  /\ last.seat # NoSeat
  /\ Len(action_order) < Len(alive)
  /\ action_order[1] > action_order[Len(action_order)]

(* ---- C18 ---- *)
\* The community cards on the table during a street.
StreetCards(st) == IF st = 0 THEN 0 ELSE st + 2

\* C18: a hand that ends with one player not folded pays that player the
\* total_bet_this_hand of all alive players and nobody else anything, leaves
\* went_to_showdown false, reports one pot_winners entry without a hand
\* value, and deals no community card beyond those of the street on which
\* the last opponent folded.
C18_LastPlayerTakesAll ==
  [][ (pc = "showdown" /\ Cardinality(InHand(players, alive)) = 1) =>
        LET w == CHOOSE s \in InHand(players, alive) : TRUE
            whole == TotalBets(players, SeqSet(alive))
        IN /\ players'[w].chips = players[w].chips + whole
           /\ \A s \in DOMAIN players \ {w} : players'[s].chips = players[s].chips
           /\ ~went_to_showdown'
           /\ Len(pot_winners') = 1
           /\ pot_winners'[1].winners = {w}
           /\ pot_winners'[1].amount = whole
           /\ pot_winners'[1].hand_value = FALSE
           /\ community' = StreetCards(street) ]_vars

C18_Witness ==
  /\ pc = "done"
  /\ ~went_to_showdown
  /\ Len(pot_winners) = 1
  /\ \E k \in 1 .. Len(side_pots) : side_pots[k].eligible_players = {}
  /\ \E s \in DOMAIN players : players[s].chips > chips0[s]

(* ---- C19 ---- *)
\* C19: a hand that ends with two or more players not folded went to
\* showdown and returns five community cards, also when nobody could act
\* on the last streets.
C19_ShowdownHasFiveCards ==
  (pc = "done" /\ Cardinality(InHand(players, alive)) >= 2) =>
    went_to_showdown /\ community = 5

C19_Witness ==
  /\ pc = "done"
  /\ went_to_showdown
  /\ community = 5
  /\ last = NoLast
  /\ \E s \in InHand(players, alive) : players[s].is_all_in

(* ---- C20 ---- *)
\* What winner s is credited from pot_winners entry e: the floor of the
\* amount over the number of winners, and one chip more for the first
\* (amount mod winners) winners in seat order.
Credited(e, s) ==
  LET k == Cardinality(e.winners)
      before == Cardinality({ w \in e.winners : w < s })
  IN IF s \in e.winners
     THEN (e.amount \div k) + (IF before < e.amount % k THEN 1 ELSE 0)
     ELSE 0

\* C20: after a showdown every player holds the chips left after betting
\* plus, for each pot won, floor(A / k) and one extra chip if among the first
\* (A mod k) winners in seat order; the chips credited from a pot sum to A.
C20_SplitPot ==
  (pc = "done" /\ went_to_showdown) =>
    /\ \A s \in DOMAIN players :
         players[s].chips =
           chips0[s] - players[s].total_bet_this_hand
             + SumSeq([ k \in 1 .. Len(pot_winners) |-> Credited(pot_winners[k], s) ])
    /\ \A k \in 1 .. Len(pot_winners) :
         SumOver([ s \in DOMAIN players |-> Credited(pot_winners[k], s) ],
                 DOMAIN players) = pot_winners[k].amount

C20_Witness ==
  /\ pc = "done"
  /\ went_to_showdown
  /\ \E k \in 1 .. Len(pot_winners) :
       /\ Cardinality(pot_winners[k].winners) >= 2
       /\ pot_winners[k].amount % Cardinality(pot_winners[k].winners) # 0
       /\ \E s \in pot_winners[k].winners, t \in pot_winners[k].winners :
            s < t /\ players[s].chips - chips0[s] > players[t].chips - chips0[t]

(* ------------------------------ C21..C30 ------------------------------ *)
\* C21: after each hand the dealer button moves to the first non-eliminated
\* seat strictly after the previous dealer seat in cyclic seat order, also
\* when the previous dealer was eliminated in that hand.
C21_DealerMovesToNextAlive ==
  [][ (pc = "done" /\ pc' = "tour_loop" /\ tour_alive' # << >>)
        => dealer_seat' = ClockwiseAfter(dealer_seat, SeqSet(tour_alive'))[1] ]_vars

HasEvent(evs, kind) == \E i \in 1 .. Len(evs) : evs[i].kind = kind

FloorDiv(a, b) == a \div b

\* C22: in hand h the blind level index is min(floor((h - 1) / hands_per_level),
\* len(blind_schedule) - 1); it never decreases, stays at the last level once
\* the schedule is exhausted, and on_blind_increase is emitted exactly at the
\* start of the hands in which the index rose.
C22_BlindLevel ==
  /\ [](hand_number >= 1 =>
         blind_level_idx =
           (IF FloorDiv(hand_number - 1, HandsPerLevel) < NumLevels - 1
            THEN FloorDiv(hand_number - 1, HandsPerLevel) ELSE NumLevels - 1))
  /\ [][ /\ blind_level_idx' >= blind_level_idx
         /\ hand_number' # hand_number =>
              /\ events' # << >>
              /\ events'[Len(events')] = Event("hand_start", dealer_seat, hand_number')
              /\ HasEvent(events', "blind_increase") <=> blind_level_idx' > blind_level_idx
              /\ HasEvent(events', "blind_increase") =>
                   events' = << Event("blind_increase", NoSeat, blind_level_idx'),
                                Event("hand_start", dealer_seat, hand_number') >>
         /\ (hand_number' = hand_number /\ HasEvent(events', "blind_increase")) =>
              events' = events ]_vars

\* A hand starts at which a rise would be due but the schedule is exhausted,
\* and an earlier hand of the tournament did raise the blinds.
C22_Witness ==
  /\ pc = "start"
  /\ hand_number > 1
  /\ (hand_number - 1) % HandsPerLevel = 0
  /\ FloorDiv(hand_number - 1, HandsPerLevel) > NumLevels - 1
  /\ blind_level_idx = NumLevels - 1
  /\ ~HasEvent(events, "blind_increase")

TimesReported(s) ==
  Cardinality({ k \in 1 .. Len(eliminations) : eliminations[k].seat = s })

\* The number of players eliminated by the end of hand h.
EliminatedBy(h) ==
  Cardinality({ k \in 1 .. Len(eliminations) : eliminations[k].hand <= h })

BetweenHands == pc \in { "tour_loop", "start", "tour_done", "tour_crashed" }

\* C23: every player whose chips reach 0 in a hand is reported through
\* on_elimination exactly once, after the on_hand_end of that hand and in
\* seat order, with finish position total_players - eliminated_so_far + 1
\* (eliminated_so_far counting the players eliminated up to and including
\* that hand), and is never reported again in a later hand.
C23_EliminationReports ==
  /\ [](/\ \A s \in DOMAIN players : TimesReported(s) <= 1
        /\ (BetweenHands /\ hand_number >= 1) =>
             \A s \in DOMAIN players : (players[s].chips = 0) <=> (TimesReported(s) = 1)
        /\ \A k \in 1 .. Len(eliminations) :
             /\ eliminations[k].position =
                  Cardinality(DOMAIN players) - EliminatedBy(eliminations[k].hand) + 1
             /\ \A j \in 1 .. k - 1 :
                  \/ eliminations[j].hand < eliminations[k].hand
                  \/ /\ eliminations[j].hand = eliminations[k].hand
                     /\ eliminations[j].seat < eliminations[k].seat)
  /\ [][ IF pc = "done" /\ pc' = "tour_loop"
         THEN LET n == Len(eliminations' ) - Len(eliminations)
              IN /\ n >= 0
                 /\ SubSeq(eliminations', 1, Len(eliminations)) = eliminations
                 /\ { eliminations'[Len(eliminations) + k].seat : k \in 1 .. n }
                      = { s \in DOMAIN players :
                            players'[s].chips = 0 /\ chips0[s] > 0 }
                 /\ Len(events') = n + 1
                 /\ events'[1].kind = "hand_end"
                 /\ \A k \in 1 .. n :
                      /\ eliminations'[Len(eliminations) + k].hand = hand_number
                      /\ events'[k + 1] =
                           Event("elimination",
                                 eliminations'[Len(eliminations) + k].seat, hand_number)
         ELSE /\ eliminations' = eliminations
              /\ HasEvent(events', "elimination") => events' = events ]_vars

\* Two players have been eliminated in different hands, and a third hand is
\* about to start or the tournament to end.
C23_Witness ==
  /\ pc = "tour_loop"
  /\ Len(eliminations) = 2
  /\ eliminations[1].hand < eliminations[2].hand
  /\ eliminations[1].position = 3
  /\ eliminations[2].position = 2

NonEliminated == { s \in DOMAIN players : ~is_eliminated(players[s]) }

\* C24: Tournament.run returns only when exactly one player is not
\* eliminated; on_tournament_end is emitted exactly once, as the last event,
\* with the returned player, who has chips.
C24_TournamentEnd ==
  /\ [](pc = "tour_done" =>
          /\ NonEliminated = { tour_winner }
          /\ players[tour_winner].chips > 0
          /\ events = << Event("tournament_end", tour_winner, hand_number) >>)
  /\ [](pc # "tour_done" => tour_winner = NoSeat)
  /\ [][ /\ pc # "tour_done"
         /\ (HasEvent(events', "tournament_end") /\ events' # events) =>
              pc' = "tour_done" ]_vars

\* The tournament has returned after more than one hand and more than one
\* round of eliminations.
C24_Witness ==
  /\ pc = "tour_done"
  /\ hand_number > 1
  /\ Len(eliminations) = Cardinality(DOMAIN players) - 1
  /\ eliminations[1].hand < hand_number
  /\ HasEvent(events, "tournament_end")

LastEvent(evs) == evs[Len(evs)]

\* The batch of events now may directly follow the batch before in the
\* stream of observer events.
Follows(before, now) ==
  LET k == now[1].kind
      prev == LastEvent(before)
      in_street(st) == /\ before # << >>
                       /\ prev.kind \in { "deal", "action" }
                       /\ prev.street = st
      after_hand == before = << >> \/ before[1].kind = "hand_end"
  IN CASE k = "blind_increase" ->
            /\ Len(now) = 2 /\ now[2].kind = "hand_start" /\ after_hand
       [] k = "hand_start" -> Len(now) = 1 /\ after_hand
       [] k = "deal" ->
            /\ Len(now) = 1
            /\ before # << >>
            /\ IF now[1].street = 0 THEN prev.kind = "hand_start"
               ELSE in_street(now[1].street - 1)
       [] k = "before_action" ->
            /\ Len(now) = 2
            /\ now[2] = Event("action", now[1].seat, now[1].street)
            /\ in_street(now[1].street)
       [] k = "showdown" ->
            /\ Len(now) = 1
            /\ \E st \in 0 .. 3 : in_street(st)
       [] k = "hand_end" ->
            /\ \A i \in 2 .. Len(now) : now[i].kind = "elimination"
            /\ before # << >> /\ Len(before) = 1 /\ prev.kind = "showdown"
       [] k = "tournament_end" ->
            /\ Len(now) = 1 /\ before # << >> /\ before[1].kind = "hand_end"
       [] OTHER -> FALSE

\* C25: the observer events of a hand come in a fixed order: on_blind_increase
\* (if any) right before on_hand_start, then on_deal(hole_cards), then street
\* by street the on_deal of the flop, turn or river before that street's
\* actions, each on_action right after the on_before_action of the same
\* player, then one on_showdown, then on_hand_end, then the hand's
\* on_elimination events.
C25_EventOrder ==
  [][ /\ events' # events => (events' # << >> /\ Follows(events, events'))
      /\ (pc = "tour_loop" /\ pc' = "start") => LastEvent(events').kind = "hand_start"
      /\ (pc = "start" /\ pc' = "street") => events' = << Event("deal", NoSeat, 0) >>
      /\ (pc = "street" /\ street > 0) => events' = << Event("deal", NoSeat, street) >>
      /\ (pc = "street" /\ street = 0) => events' = events
      /\ (pc = "betting" /\ last' # last) =>
           /\ events'[1] = Event("before_action", last'.seat, street)
           /\ events'[2] = Event("action", last'.seat, street)
      /\ (pc = "betting" /\ last' = last) => events' = events
      /\ pc = "round_done" => events' = events
      /\ pc = "showdown" => events'[1].kind = "showdown"
      /\ pc = "done" => events'[1].kind = "hand_end" ]_vars

\* The river is bet in a hand played after the blinds were raised.
C25_Witness ==
  /\ pc = "betting"
  /\ street = 3
  /\ blind_level_idx > 0
  /\ Len(events) = 2
  /\ events[1].kind = "before_action"
  /\ events[2] = Event("action", last.seat, 3)

\* C26: when a player's decider raises an exception the round applies the
\* conservative fallback for that player (Check when nothing is owed, Fold
\* otherwise) and goes on; the hand is not aborted.
C26_DeciderExceptionFallsBack ==
  /\ [](pc # "raised")
  /\ [][ (pc = "betting" /\ last'.decided = "exception") =>
           /\ last'.applied = (IF last'.to_call = 0 THEN "check" ELSE "fold")
           /\ acted' = acted \cup { last'.seat }
           /\ pc' \in { "betting", "round_done" } ]_vars

\* C27: after any sequence of shuffle, deal(n) and remove(card...) on a
\* freshly created Deck the remaining cards and the dealt or removed cards
\* are disjoint, hold no card twice, and together are the canonical deck; a
\* deal(n) with n larger than the number of remaining cards fails and leaves
\* the deck unchanged.
C27_DeckPartition ==
  /\ [](pc = "deck" =>
          /\ SeqSet(deck_cards) \cap deck_dealt = {}
          /\ Cardinality(SeqSet(deck_cards)) = Len(deck_cards)
          /\ SeqSet(deck_cards) \cup deck_dealt = SeqSet(CanonicalDeck))
  /\ [][ deck_last'.op = "deal" =>
           IF deck_last'.n > Len(deck_cards)
           THEN /\ deck_last'.failed
                /\ deck_cards' = deck_cards
                /\ deck_dealt' = deck_dealt
           ELSE /\ ~deck_last'.failed
                /\ Len(deck_cards') = Len(deck_cards) - deck_last'.n
                /\ deck_cards' = SubSeq(deck_cards, 1, Len(deck_cards'))
                /\ Cardinality(deck_dealt') = Cardinality(deck_dealt) + deck_last'.n ]_vars

\* A shuffled, partly dealt deck has just refused to deal more cards than
\* it holds.
C27_Witness ==
  /\ pc = "deck"
  /\ deck_last.op = "deal"
  /\ deck_last.failed
  /\ Len(deck_cards) >= 2
  /\ deck_dealt # {}
  /\ \E i \in 1 .. Len(deck_cards) - 1 : deck_cards[i] > deck_cards[i + 1]

FiveCardSubsets(S) == { T \in SUBSET S : Cardinality(T) = 5 }

\* A hand value as one tuple: category first, then primary, then kickers.
Flat(v) == << v.rank >> \o v.primary \o v.kickers

\* v is above w in the lexicographic order over (category, primary, kickers).
LexGreater(v, w) ==
  \E i \in 1 .. Len(Flat(v)) :
    /\ i <= Len(Flat(w))
    /\ Flat(v)[i] > Flat(w)[i]
    /\ \A j \in 1 .. i - 1 : Flat(v)[j] = Flat(w)[j]

\* C28: for seven distinct cards Hand.evaluate returns the maximum, in the
\* lexicographic order over (category, primary, kickers), of the evaluations
\* of the 21 five-card subsets, in whatever order the cards are given.
C28_BestOfSeven ==
  (pc = "eval_done" /\ Len(hand_cards) = 7) =>
    LET subsets == FiveCardSubsets(SeqSet(hand_cards))
        values == { evaluate_five(Ascending(T)) : T \in subsets }
    IN /\ Cardinality(subsets) = 21
       /\ ~hand_value.failed
       /\ hand_value.value \in values
       /\ \A w \in values : ~LexGreater(w, hand_value.value)

\* Seven cards holding three pairs, not given in ascending order, have been
\* evaluated as two pair: the first five-card subset tried is not the best.
C28_Witness ==
  /\ pc = "eval_done"
  /\ Len(hand_cards) = 7
  /\ hand_cards # Ascending(SeqSet(hand_cards))
  /\ hand_value.value.rank = TWO_PAIR
  /\ Cardinality({ r \in Ranks :
                     Cardinality({ k \in 1 .. 7 : hand_cards[k][1] = r }) = 2 }) = 3
  /\ hand_value.value # evaluate_five(SubSeq(hand_cards, 1, 5))

Consecutive(q) == \A k \in 1 .. Len(q) - 1 : q[k] = q[k + 1] + 1

\* C29: for five ranks sorted descending the straight detector returns
\* (true, top rank) exactly when the ranks are five consecutive values,
\* (true, 5) for the wheel A-5-4-3-2, and false for every other combination,
\* such as A-K-Q-J-9.
C29_StraightDetector ==
  pc = "straight_done" =>
    /\ Consecutive(ranks) <=> straight = << TRUE, ranks[1] >>
    /\ ranks = << 14, 5, 4, 3, 2 >> => straight = << TRUE, 5 >>
    /\ (~Consecutive(ranks) /\ ranks # << 14, 5, 4, 3, 2 >>) => ~straight[1]
    /\ (ranks = << 14, 13, 12, 11, 9 >> \/ ranks = << 14, 6, 5, 4, 3 >>) => ~straight[1]

\* The wheel has been recognised as a five-high straight.
C29_Witness ==
  /\ pc = "straight_done"
  /\ ranks = << 14, 5, 4, 3, 2 >>
  /\ ~Consecutive(ranks)
  /\ straight = << TRUE, 5 >>

Evaluated == pc \in { "eval_done", "eval_failed" }

\* C30: hand evaluation fails with an error for every input whose number of
\* cards is neither exactly 5 nor exactly 7 (for example 4, 6 or 8 cards).
C30_FailsUnlessFiveOrSeven ==
  (Evaluated /\ Len(hand_cards) \notin { 5, 7 }) => hand_value.failed

\* C30, as the code has it: hand evaluation fails with an error exactly for
\* the inputs of fewer than 5 cards; 5 or more cards, 6 and 8 among them,
\* are evaluated as one of their five-card subsets.
C30_FailsBelowFive ==
  Evaluated =>
    /\ hand_value.failed <=> Len(hand_cards) < 5
    /\ hand_value.failed <=> pc = "eval_failed"
    /\ ~hand_value.failed =>
         \E T \in FiveCardSubsets(SeqSet(hand_cards)) :
           hand_value.value = evaluate_five(Ascending(T))

\* Four cards have been refused.
C30_Witness ==
  /\ pc = "eval_failed"
  /\ Len(hand_cards) = 4
  /\ hand_value.failed

(* ------------------------------ C31..C38 ------------------------------ *)
\* C31: in a hand with N alive players the position label of each seat is
\* position_from_utg_distance(d, N), d being the number of seats the player
\* acts after the first player to act preflop; with three or more players the
\* small-blind poster is labelled SB, the big-blind poster BB and the dealer
\* BTN.
C31_PositionLabels ==
  (pc = "street" /\ street = 0) =>
    LET n == Len(alive)
        order == ClockwiseAfter(bb_seat, SeqSet(alive))
    IN /\ DOMAIN positions = SeqSet(alive)
       /\ \A d \in 0 .. n - 1 :
            positions[order[d + 1]] = position_from_utg_distance(d, n)
       /\ n >= 3 => /\ positions[sb_seat] = "SB"
                    /\ positions[bb_seat] = "BB"
                    /\ positions[Button] = "BTN"

InPlay == pc \in { "street", "betting", "round_done", "showdown", "done" }

\* C32: at every point of a hand, from the posting of the blinds until the
\* payout, the running pot total equals the sum of total_bet_this_hand over
\* the players of the hand; every step that changes a player's bet changes
\* the pot by the same amount.
C32_PotMatchesBets ==
  /\ [](InPlay => pot_total = TotalBets(players, SeqSet(alive)))
  /\ [][ (InPlay /\ InPlay') =>
           pot_total' - pot_total =
             TotalBets(players', SeqSet(alive)) - TotalBets(players, SeqSet(alive)) ]_vars

\* A player has just called for less than was owed, going all-in, on a
\* street after the flop was dealt.
C32_Witness ==
  /\ pc \in { "betting", "round_done" }
  /\ street >= 1
  /\ last.applied = "call"
  /\ last.seat # NoSeat
  /\ players[last.seat].is_all_in
  /\ players[last.seat].current_bet < last.to_call
  /\ pot_total > SmallBlind + BigBlind

\* C33: posted blinds count toward the preflop bet.  In a preflop round
\* without a raise the big-blind poster owes nothing when consulted and the
\* small-blind poster owes big_blind - small_blind, so a poster who calls
\* has total_bet_this_hand equal to the big blind.
C33_BlindsCountPreflop ==
  [][ (pc = "betting" /\ street = 0 /\ raise_count = 0
         /\ table_current_bet = BigBlind /\ last' # last
         /\ last'.seat \in { sb_seat, bb_seat }
         /\ chips0[last'.seat] >= BigBlind) =>
        /\ last'.seat = bb_seat => last'.to_call = 0
        /\ last'.seat = sb_seat => last'.to_call = BigBlind - SmallBlind
        /\ last'.applied = "call" =>
             players'[last'.seat].total_bet_this_hand = BigBlind ]_vars

\* C34: no action applied by a betting round gives chips back.  For every
\* decider output with a non-negative amount, during the round no player's
\* chips increase, no player's current_bet or total_bet_this_hand decreases,
\* and neither the pot total nor the table's current_bet decreases.
C34_NoChipsGivenBack ==
  [][ (pc = "betting" /\ pc' \in { "betting", "round_done" }) =>
        /\ \A s \in DOMAIN players :
             /\ players'[s].chips <= players[s].chips
             /\ players'[s].current_bet >= players[s].current_bet
             /\ players'[s].total_bet_this_hand >= players[s].total_bet_this_hand
        /\ pot_total' >= pot_total
        /\ table_current_bet' >= table_current_bet ]_vars

\* C35: when a hand reaches showdown, every side pot has at least one
\* eligible player who has not folded, so no pot is skipped and every pot
\* is awarded.
C35_EveryPotHasEligible ==
  (pc = "done" /\ went_to_showdown) =>
    /\ \A k \in 1 .. Len(side_pots) :
         side_pots[k].eligible_players \cap InHand(players, alive) # {}
    /\ Len(pot_winners) = Len(side_pots)

\* What the side pots let a player whose total_bet_this_hand is t win at
\* most: from every player of the hand, what that player put in up to t.
MatchedUpTo(P, S, t) == SumOver([ p \in S |-> Min(P[p].total_bet_this_hand, t) ], S)

\* C36: at showdown a player whose total_bet_this_hand is t is credited at
\* most the sum over all the players of the hand of
\* min(that player's total_bet_this_hand, t).
C36_CreditCappedByOwnBet ==
  [][ (pc = "showdown" /\ went_to_showdown') =>
        \A s \in SeqSet(alive) :
          players'[s].chips - players[s].chips
            <= MatchedUpTo(players, SeqSet(alive), players[s].total_bet_this_hand) ]_vars

\* A showdown with more than one pot where a winner is credited exactly
\* what its own bet matched, which is less than the whole pot.
C36_Witness ==
  /\ pc = "done"
  /\ went_to_showdown
  /\ Len(side_pots) >= 2
  /\ \E s \in SeqSet(alive) :
       LET cap == MatchedUpTo(players, SeqSet(alive), players[s].total_bet_this_hand)
       IN /\ players[s].chips - (chips0[s] - players[s].total_bet_this_hand) = cap
          /\ cap > 0
          /\ cap < pot_total

\* C37: over a tournament the positions passed to on_elimination are
\* pairwise distinct, also when several players are eliminated in the same
\* hand.
C37_DistinctFinishPositions ==
  \A j, k \in 1 .. Len(eliminations) :
    j # k => eliminations[j].position # eliminations[k].position

\* C38: in every reachable state of a hand at least one alive player has
\* not folded; the betting round consults a player only while two or more
\* players have not folded, and stops as soon as one remains.
C38_SomeoneNeverFolds ==
  /\ [](InPlay => InHand(players, alive) # {})
  /\ [][ (pc = "betting" /\ NextSeat # NoSeat) =>
           /\ Cardinality(InHand(players, alive)) >= 2
           /\ Cardinality(InHand(players', alive)) <= 1 => pc' = "round_done" ]_vars

\* A round that stopped on a fold with one player left, who was not
\* consulted in it, while that player could still act.
C38_Witness ==
  /\ pc = "round_done"
  /\ last.applied = "fold"
  /\ Cardinality(InHand(players, alive)) = 1
  /\ \E s \in InHand(players, alive) : s \notin acted /\ is_active(players[s])

====
